---- MODULE Spec2Model ----
(***************************************************************************)
(* Model of codebaser.py: the tri-state checkbox tree (CheckboxTreeview),  *)
(* the background directory scanner (_load_tree_thread and                 *)
(* _build_tree_structure), the message queue and its consumer              *)
(* (process_queue), and the handlers that start and cancel scans.          *)
(*                                                                         *)
(* Filesystem entries are numbered 1..N; 0 stands both for the scanned     *)
(* root folder and for the Treeview's root item "".  The item id of an     *)
(* entry, str(hash(path)), is modelled by the entry's number: hash() is    *)
(* taken to be injective on the paths of one snapshot.                     *)
(***************************************************************************)
EXTENDS Integers, Sequences, FiniteSets, TLC

VARIABLES
    fs,                \* the filesystem snapshot below the selected folder
    tree,              \* the Treeview items: iid -> [parent, children, tags]
    file_items,        \* self.file_items: iid -> [path, is_dir]
    origin,            \* iid -> the scan whose add_item inserted the item
    file_count,        \* self.file_count_var: the folder and file counts shown
    current_folder,    \* self.current_folder (None or the folder)
    is_loading,        \* self.is_loading
    stop_loading_flag, \* self.stop_loading_flag
    buttons,           \* state given by set_buttons_state
    status,            \* self.status_var
    queue,             \* self.queue, oldest message first
    threads,           \* every scanner thread started so far, in start order
    tcl_errors,        \* the kinds of TclError tree.insert has raised in process_queue
    cancel_applied,    \* the scans whose loading_cancelled message has been applied
    late_adds,         \* the scans with an add_item inserted after their loading_cancelled
    cancel_end,        \* per scan: the tree size and the TclErrors when its loading_cancelled was applied
    complete_end,      \* per scan: the application right after its loading_complete was applied
    emitted,           \* per scan: every message enqueued for it, in order
    cancel_req,        \* per scan cancelled while it ran: what had been emitted and applied by then
    selected_files,    \* the list compile_selected hands to the export
    lastOp,            \* the last handler on the tree that ran: its argument and outcome
    preTree            \* the Treeview items as they were before lastOp ran

vars == <<fs, tree, file_items, origin, file_count, current_folder, is_loading,
          stop_loading_flag, buttons, status, queue, threads, tcl_errors,
          cancel_applied, late_adds, cancel_end, complete_end, emitted, cancel_req,
          selected_files, lastOp, preTree>>

storeVars == <<tree, file_items, origin>>
appVars == <<current_folder, is_loading, stop_loading_flag, buttons, status, file_count>>
ghostVars == <<tcl_errors, cancel_applied, late_adds, cancel_end, complete_end>>
scanGhost == <<emitted, cancel_req>>
userVars == <<selected_files, lastOp, preTree>>

----------------------------------------------------------------------------
(* Bounds *)

\* Number of scans (scanner threads) that may be started in one behaviour.
MaxScans == 2

\* Number of messages pending in the queue when a tick of the dispatcher
\* specification starts.
MaxPending == 2

----------------------------------------------------------------------------
(* Filesystem snapshots *)

Root == 0
None == "None"
\* The one folder the user can select.
Folder == "folder"

\* Character codes of the names used below.
DOT == 46

\* "src", "util.py", "main.py", "readme.md"
n_src    == <<115, 114, 99>>
n_util   == <<117, 116, 105, 108, 46, 112, 121>>
n_main   == <<109, 97, 105, 110, 46, 112, 121>>
n_readme == <<114, 101, 97, 100, 109, 101, 46, 109, 100>>
\* "b", "c", "d", "f", "g", "h", "Zed", ".git"
n_b   == <<98>>
n_c   == <<99>>
n_d   == <<100>>
n_f   == <<102>>
n_g   == <<103>>
n_h   == <<104>>
n_Zed == <<90, 101, 100>>
n_git == <<46, 103, 105, 116>>
n_zed == <<122, 101, 100>>

Entry(name, isdir, par) == [name |-> name, is_dir |-> isdir, parent |-> par]

\* Each snapshot: the entries, for every directory the order in which
\* iterdir() returns its entries (an order the operating system chooses), and
\* the directories that cannot be listed (iterdir() raises OSError there).

\* root/{main.py, readme.md, src/{util.py}}
FS_A == [entries |-> <<Entry(n_main, FALSE, 0), Entry(n_readme, FALSE, 0),
                       Entry(n_src, TRUE, 0), Entry(n_util, FALSE, 3)>>,
         listing |-> [d \in {0, 3} |-> IF d = 0 THEN <<2, 1, 3>> ELSE <<4>>],
         unlistable |-> {}]

\* root/{b/{f, c/{h}}}
FS_Deep == [entries |-> <<Entry(n_b, TRUE, 0), Entry(n_f, FALSE, 1),
                          Entry(n_c, TRUE, 1), Entry(n_h, FALSE, 3)>>,
            listing |-> [d \in {0, 1, 3} |->
                           IF d = 0 THEN <<1>> ELSE IF d = 1 THEN <<2, 3>> ELSE <<4>>],
            unlistable |-> {}]

\* root/{d/{f, g, h}}
FS_C == [entries |-> <<Entry(n_d, TRUE, 0), Entry(n_f, FALSE, 1),
                       Entry(n_g, FALSE, 1), Entry(n_h, FALSE, 1)>>,
         listing |-> [d \in {0, 1} |-> IF d = 0 THEN <<1>> ELSE <<4, 2, 3>>],
         unlistable |-> {}]

\* root/{.git/{h}, Zed/ (empty), b/{g}, f}
FS_Mixed == [entries |-> <<Entry(n_git, TRUE, 0), Entry(n_h, FALSE, 1),
                           Entry(n_Zed, TRUE, 0), Entry(n_b, TRUE, 0),
                           Entry(n_g, FALSE, 4), Entry(n_f, FALSE, 0)>>,
             listing |-> [d \in {0, 1, 3, 4} |->
                            IF d = 0 THEN <<6, 3, 1, 4>>
                            ELSE IF d = 1 THEN <<2>>
                            ELSE IF d = 3 THEN <<>> ELSE <<5>>],
             unlistable |-> {}]

\* The snapshots the selection engine is exercised on.
SelectionFileSystems == {FS_A, FS_Deep, FS_C, FS_Mixed}

\* root/{main.py, src/{util.py}}
FS_S == [entries |-> <<Entry(n_main, FALSE, 0), Entry(n_src, TRUE, 0),
                       Entry(n_util, FALSE, 2)>>,
         listing |-> [d \in {0, 2} |-> IF d = 0 THEN <<1, 2>> ELSE <<3>>],
         unlistable |-> {}]

\* The snapshots scanned by the whole-system specification.
ScanFileSystems == {FS_S}

\* b/ Zed zed: two files whose names differ only by letter case.
FS_Case == [entries |-> <<Entry(n_Zed, FALSE, 0), Entry(n_zed, FALSE, 0),
                          Entry(n_b, TRUE, 0)>>,
            listing |-> [d \in {0, 3} |-> IF d = 0 THEN <<1, 2, 3>> ELSE <<>>],
            unlistable |-> {}]

\* b/{g} c/{h} f, where b cannot be listed (PermissionError).
FS_Locked == [entries |-> <<Entry(n_b, TRUE, 0), Entry(n_g, FALSE, 1),
                            Entry(n_c, TRUE, 0), Entry(n_h, FALSE, 3),
                            Entry(n_f, FALSE, 0)>>,
              listing |-> [d \in {0, 1, 3} |->
                              IF d = 0 THEN <<5, 3, 1>>
                              ELSE IF d = 1 THEN <<2>> ELSE <<4>>],
              unlistable |-> {1}]

\* A root that cannot be listed: removed, or made unreadable, after
\* load_tree_async has tested exists().
FS_Gone == [entries |-> <<Entry(n_f, FALSE, 0)>>,
            listing |-> [d \in {0} |-> <<1>>],
            unlistable |-> {0}]

\* A folder that is not there when load_tree_async tests exists(): deleted
\* after it was selected.  os.walk and iterdir find nothing to list.
FS_Missing == [entries |-> <<>>,
               listing |-> [d \in {0} |-> <<>>],
               unlistable |-> {0},
               missing |-> TRUE]

\* Path.exists() of the root folder, line 661.
folder_exists(f) == "missing" \notin DOMAIN f

\* The snapshots scanned by the single-scan specification.
\* root/{.git/{h}, f}: a hidden directory that holds a file, and a file beside it.
FS_Dot == [entries |-> <<Entry(n_git, TRUE, 0), Entry(n_h, FALSE, 1),
                         Entry(n_f, FALSE, 0)>>,
           listing |-> [d \in {0, 1} |-> IF d = 0 THEN <<1, 3>> ELSE <<2>>],
           unlistable |-> {}]

DiscoveryFileSystems == {FS_A, FS_Case, FS_Locked, FS_Gone, FS_Dot}

\* Every order of the elements of a sequence.
RECURSIVE Perms(_)
Perms(seq) ==
    IF seq = <<>> THEN {<<>>}
    ELSE UNION {{<<seq[i]>> \o p :
                    p \in Perms(SubSeq(seq, 1, i - 1) \o SubSeq(seq, i + 1, Len(seq)))} :
                i \in 1..Len(seq)}

\* iterdir() yields the entries of a directory in an arbitrary order: the
\* snapshots that differ from f only by the order of the listings.
Relistings(f) ==
    {[f EXCEPT !.listing = l] :
        l \in {m \in [DOMAIN f.listing -> UNION {Perms(f.listing[d]) : d \in DOMAIN f.listing}] :
                  \A d \in DOMAIN f.listing : m[d] \in Perms(f.listing[d])}}

\* Every item id that can occur, and one id (0 is the root) that never does.
AllIds == 1..6
UnknownId == Cardinality(AllIds) + 1

----------------------------------------------------------------------------
(* Sorting a directory listing, line 739 *)

\* str.lower() on one character code.
lower_char(ch) == IF ch >= 65 /\ ch <= 90 THEN ch + 32 ELSE ch

lower(name) == [i \in 1..Len(name) |-> lower_char(name[i])]

\* Python's str comparison s < t: lexicographic on the character codes.
RECURSIVE str_less(_, _)
str_less(s, t) ==
    IF t = <<>> THEN FALSE
    ELSE IF s = <<>> THEN TRUE
    ELSE IF Head(s) < Head(t) THEN TRUE
    ELSE IF Head(s) > Head(t) THEN FALSE
    ELSE str_less(Tail(s), Tail(t))

\* A sort key without the directory test.
sort_key_name_only(f, a, b) ==
    str_less(lower(f.entries[a].name), lower(f.entries[b].name))

\* key=lambda x: (not x.is_dir(), x.name.lower()), compared as tuples.
sort_key_less(f, a, b) ==
    LET ka == ~f.entries[a].is_dir
        kb == ~f.entries[b].is_dir
    IN  IF ka # kb THEN kb   \* False < True: directories first
        ELSE str_less(lower(f.entries[a].name), lower(f.entries[b].name))

\* list.sort is stable: an item goes after every item that is not greater.
RECURSIVE sort_insert(_, _, _)
sort_insert(f, sorted, x) ==
    IF sorted = <<>> THEN <<x>>
    ELSE IF sort_key_less(f, x, Head(sorted)) THEN <<x>> \o sorted
    ELSE <<Head(sorted)>> \o sort_insert(f, Tail(sorted), x)

RECURSIVE items_sort(_, _)
items_sort(f, items) ==
    IF items = <<>> THEN <<>>
    ELSE sort_insert(f, items_sort(f, SubSeq(items, 1, Len(items) - 1)), items[Len(items)])

\* item.name.startswith('.')
is_hidden(f, e) == f.entries[e].name # <<>> /\ Head(f.entries[e].name) = DOT

\* A filter that lets every item through.
filter_nothing(f, items) == items

\* The filtered and sorted items of add_items(parent_path), lines 728-739.
RECURSIVE filter_hidden(_, _)
filter_hidden(f, items) ==
    IF items = <<>> THEN <<>>
    ELSE IF is_hidden(f, Head(items)) THEN filter_hidden(f, Tail(items))
    ELSE <<Head(items)>> \o filter_hidden(f, Tail(items))

listed_items(f, d) == items_sort(f, filter_hidden(f, f.listing[d]))

----------------------------------------------------------------------------
(* The Treeview: items, tags, insert and delete *)

EmptyTree == [i \in {Root} |-> [parent |-> Root, children |-> <<>>, tags |-> {}]]

\* tree.exists(iid)
exists(tr, iid) == iid \in DOMAIN tr

\* tree.item(iid, tags=...)
set_tags(tr, iid, tags) == [tr EXCEPT ![iid].tags = tags]

\* tree.insert(parent_id, "end", iid=..., tags=...): Tk raises TclError when
\* the parent is not an item or the iid is already one.
insert_raises(tr, parent_id, iid) == ~exists(tr, parent_id) \/ exists(tr, iid)

insert(tr, parent_id, iid, tags) ==
    [i \in DOMAIN tr \cup {iid} |->
        IF i = iid THEN [parent |-> parent_id, children |-> <<>>, tags |-> tags]
        ELSE IF i = parent_id THEN [tr[i] EXCEPT !.children = Append(@, iid)]
        ELSE tr[i]]

\* The check state a set of tags shows.
Checked == "checked"
Unchecked == "unchecked"
Mixed == "mixed"

check_state(tr, iid) ==
    IF Checked \in tr[iid].tags THEN Checked
    ELSE IF Unchecked \in tr[iid].tags THEN Unchecked
    ELSE IF Mixed \in tr[iid].tags THEN Mixed
    ELSE "none"

Items(tr) == DOMAIN tr \ {Root}

RECURSIVE Ancestors(_, _)
Ancestors(tr, iid) ==
    IF tr[iid].parent = Root THEN {}
    ELSE {tr[iid].parent} \cup Ancestors(tr, tr[iid].parent)

Descendants(tr, iid) == {j \in Items(tr) : iid \in Ancestors(tr, j)}

----------------------------------------------------------------------------
(* CheckboxTreeview: toggle_check and its propagation, lines 98-136 *)

update_parent_check_state(tr, parent) ==
    LET children == tr[parent].children
        kids == {children[k] : k \in 1..Len(children)}
        all_checked == \A ch \in kids : Checked \in tr[ch].tags
        all_unchecked == \A ch \in kids : Unchecked \in tr[ch].tags
    IN  IF children = <<>> THEN tr
        ELSE IF all_checked THEN set_tags(tr, parent, {Checked})
        ELSE IF all_unchecked THEN set_tags(tr, parent, {Unchecked})
        ELSE set_tags(tr, parent, {Mixed})

RECURSIVE propagate_check_state(_, _, _)
RECURSIVE propagate_children(_, _, _, _)

\* propagate_children without the recursive call of line 114.
RECURSIVE propagate_children_shallow(_, _, _, _)
propagate_children_shallow(tr, children, k, checked) ==
    IF k > Len(children) THEN tr
    ELSE propagate_children_shallow(
             set_tags(tr, children[k], IF checked THEN {Checked} ELSE {Unchecked}),
             children, k + 1, checked)

\* The for loop of lines 112-114 from the k-th child on.
propagate_children(tr, children, k, checked) ==
    IF k > Len(children) THEN tr
    ELSE LET t1 == set_tags(tr, children[k], IF checked THEN {Checked} ELSE {Unchecked})
             t2 == propagate_check_state(t1, children[k], checked)
         IN  propagate_children(t2, children, k + 1, checked)

propagate_check_state(tr, item, checked) ==
    LET t1 == propagate_children(tr, tr[item].children, 1, checked)
        parent == t1[item].parent
    IN  IF parent # Root THEN update_parent_check_state(t1, parent) ELSE t1

\* toggle_check testing for "unchecked" in place of "checked" in line 101.
toggle_check_unchecked_test(tr, item) ==
    IF ~exists(tr, item) THEN [tree |-> tr, error |-> TRUE]
    ELSE IF Unchecked \in tr[item].tags
         THEN [tree |-> propagate_check_state(set_tags(tr, item, {Checked}), item, TRUE),
               error |-> FALSE]
         ELSE [tree |-> propagate_check_state(set_tags(tr, item, {Unchecked}), item, FALSE),
               error |-> FALSE]

\* toggle_check with the TclError of an unknown id swallowed.
toggle_check_silent(tr, item) ==
    IF ~exists(tr, item) THEN [tree |-> tr, error |-> FALSE]
    ELSE IF Checked \in tr[item].tags
         THEN [tree |-> propagate_check_state(set_tags(tr, item, {Unchecked}), item, FALSE),
               error |-> FALSE]
         ELSE [tree |-> propagate_check_state(set_tags(tr, item, {Checked}), item, TRUE),
               error |-> FALSE]

\* toggle_check(item): self.item(item, "tags") raises TclError for an id
\* that is not an item, before anything is changed.
toggle_check(tr, item) ==
    IF ~exists(tr, item) THEN [tree |-> tr, error |-> TRUE]
    ELSE IF Checked \in tr[item].tags
         THEN [tree |-> propagate_check_state(set_tags(tr, item, {Unchecked}), item, FALSE),
               error |-> FALSE]
         ELSE [tree |-> propagate_check_state(set_tags(tr, item, {Checked}), item, TRUE),
               error |-> FALSE]

\* get_checked_items, lines 138-151: a pre-order walk from the top-level items.
RECURSIVE traverse(_, _)
RECURSIVE traverse_children(_, _, _)

traverse_children(tr, children, k) ==
    IF k > Len(children) THEN <<>>
    ELSE traverse(tr, children[k]) \o traverse_children(tr, children, k + 1)

traverse(tr, item) ==
    (IF Checked \in tr[item].tags THEN <<item>> ELSE <<>>)
        \o traverse_children(tr, tr[item].children, 1)

get_checked_items(tr) == traverse_children(tr, tr[Root].children, 1)

----------------------------------------------------------------------------
(* The scanner thread: _load_tree_thread and _build_tree_structure *)

\* Line 703 and line 779: a progress message every so many items.
WalkProgressEvery == 1000
BuildProgressEvery == 100

\* os.walk(folder_path): top-down, every directory (hidden ones too), the
\* subdirectories of a directory in the order the listing gives them.
RECURSIVE walk_order(_, _)
RECURSIVE walk_each(_, _)

walk_each(f, items) ==
    IF items = <<>> THEN <<>>
    ELSE (IF f.entries[Head(items)].is_dir THEN walk_order(f, Head(items)) ELSE <<>>)
            \o walk_each(f, Tail(items))

\* os.walk passes over a directory whose scandir() fails (onerror is None).
walk_order(f, d) ==
    IF d \in f.unlistable THEN <<>> ELSE <<d>> \o walk_each(f, f.listing[d])

\* len(dirs) and len(files) of one os.walk step.
count_dirs(f, d) == Cardinality({k \in 1..Len(f.listing[d]) : f.entries[f.listing[d][k]].is_dir})
count_files(f, d) == Cardinality({k \in 1..Len(f.listing[d]) : ~f.entries[f.listing[d][k]].is_dir})

Msg(type, scan) == [type |-> type, scan |-> scan]

\* An add_item message that names the root as the parent of every entry.
add_item_msg_flat(f, scan, e, parent_id, row_index) ==
    [type |-> "add_item", scan |-> scan, parent_id |-> Root, item_id |-> e,
     tags |-> {Unchecked,
               IF row_index % 2 = 0 THEN "evenrow" ELSE "oddrow",
               IF f.entries[e].is_dir THEN "folder" ELSE "file"},
     is_dir |-> f.entries[e].is_dir, path |-> e]

\* The ('add_item', {...}) message of lines 765-774 for entry e.
add_item_msg(f, scan, e, parent_id, row_index) ==
    [type |-> "add_item", scan |-> scan, parent_id |-> parent_id, item_id |-> e,
     tags |-> {Unchecked,
               IF row_index % 2 = 0 THEN "evenrow" ELSE "oddrow",
               IF f.entries[e].is_dir THEN "folder" ELSE "file"},
     is_dir |-> f.entries[e].is_dir, path |-> e]

\* A frame of add_items: the directory, its sorted items, the loop position.
Frame(f, d) == [dir |-> d, items |-> listed_items(f, d), idx |-> 1]

\* A thread that has returned: its locals are gone.
DoneThread ==
    [pc |-> "done", walk |-> <<>>, stack |-> <<>>,
     row_index |-> 0, total_files |-> 0, total_folders |-> 0]

\* A thread just started by load_tree_async.
NewThread(f) ==
    [pc |-> "walk", walk |-> walk_order(f, Root), stack |-> <<>>,
     row_index |-> 0, total_files |-> 0, total_folders |-> 0]

\* add_items returns: the caller's for loop moves to its next item, and a
\* loop that has no item left returns in turn.
RECURSIVE unwind(_)
unwind(stack) ==
    IF stack = <<>> THEN <<>>
    ELSE LET top == stack[Len(stack)]
         IN  IF top.idx < Len(top.items)
             THEN [stack EXCEPT ![Len(stack)].idx = top.idx + 1]
             ELSE unwind(SubSeq(stack, 1, Len(stack) - 1))

\* The thread after the innermost add_items call has returned.
after_return(th) ==
    LET st == unwind(SubSeq(th.stack, 1, Len(th.stack) - 1))
    IN  [th EXCEPT !.stack = st, !.pc = IF st = <<>> THEN "final" ELSE "check"]

\* The thread after the loop body for the current item has ended.
after_item(th) ==
    LET st == unwind(th.stack)
    IN  [th EXCEPT !.stack = st, !.pc = IF st = <<>> THEN "final" ELSE "check"]

Step(th, msgs) == [th |-> th, msgs |-> msgs]

\* One iteration of the os.walk loop of lines 694-705, or its end and the
\* message of line 707.  flag is the value read from stop_loading_flag.
walk_step(f, th, flag, t) ==
    IF th.walk = <<>>
    THEN Step([th EXCEPT !.pc = "list", !.stack = <<Frame(f, Root)>>],
              <<Msg("loading_progress", t)>>)
    ELSE IF flag
    THEN Step(DoneThread, <<Msg("loading_cancelled", t)>>)
    ELSE LET folders == th.total_folders + count_dirs(f, Head(th.walk))
             files == th.total_files + count_files(f, Head(th.walk))
         IN  Step([th EXCEPT !.walk = Tail(th.walk),
                             !.total_folders = folders,
                             !.total_files = files],
                  IF (files + folders) % WalkProgressEvery = 0
                  THEN <<Msg("loading_progress", t)>> ELSE <<>>)

\* A listing whose exception is not handled in add_items: it ends the build.
list_step_raise(f, th, flag, t) ==
    LET top == th.stack[Len(th.stack)]
    IN  IF top.dir \in f.unlistable
        THEN Step([th EXCEPT !.pc = "final", !.stack = <<>>], <<>>)
        ELSE IF f.listing[top.dir] # <<>> /\ flag THEN Step(after_return(th), <<>>)
        ELSE IF top.items = <<>> THEN Step(after_return(th), <<>>)
        ELSE Step([th EXCEPT !.pc = "check"], <<>>)

\* The iterdir loop and the sort of lines 728-739 for the directory on top of
\* the stack.  The loop reads the flag once for every entry listed; the reads
\* have no effect of their own, so one read stands for them, and a directory
\* without entries reads nothing.  When iterdir() raises, the handler of
\* lines 786-788 reads the flag, puts a warning, and add_items returns.
list_step(f, th, flag, t) ==
    LET top == th.stack[Len(th.stack)]
    IN  IF top.dir \in f.unlistable
        THEN Step(after_return(th),
                  IF ~flag THEN <<Msg("loading_warning", t)>> ELSE <<>>)
        ELSE IF f.listing[top.dir] # <<>> /\ flag THEN Step(after_return(th), <<>>)
        ELSE IF top.items = <<>> THEN Step(after_return(th), <<>>)
        ELSE Step([th EXCEPT !.pc = "check"], <<>>)

\* The test of lines 742-743 for the current item.
check_step(f, th, flag, t) ==
    IF flag THEN Step(after_return(th), <<>>)
    ELSE Step([th EXCEPT !.pc = "put"], <<>>)

\* Lines 745-784 for the current item: the add_item message, the progress
\* message, and the recursive call for a directory.
put_step(f, th, flag, t) ==
    LET top == th.stack[Len(th.stack)]
        item == top.items[top.idx]
        row == th.row_index + 1
        counted == [th EXCEPT !.row_index = row]
    IN  Step(IF f.entries[item].is_dir
             THEN [counted EXCEPT !.pc = "list", !.stack = Append(th.stack, Frame(f, item))]
             ELSE after_item(counted),
             <<add_item_msg(f, t, item, top.dir, th.row_index)>>
                \o (IF row % BuildProgressEvery = 0
                    THEN <<Msg("loading_progress", t)>> ELSE <<>>))

\* An end of the thread that puts no message.
final_step_silent(f, th, flag, t) == Step(DoneThread, <<>>)

\* Lines 713-714, after _build_tree_structure has returned.
final_step(f, th, flag, t) ==
    Step(DoneThread,
         IF ~flag THEN <<Msg("loading_complete", t)>> ELSE <<>>)

\* The next step of thread t, by its position.
scan_step(f, th, flag, t) ==
    CASE th.pc = "walk" -> walk_step(f, th, flag, t)
      [] th.pc = "list" -> list_step(f, th, flag, t)
      [] th.pc = "check" -> check_step(f, th, flag, t)
      [] th.pc = "put" -> put_step(f, th, flag, t)
      [] th.pc = "final" -> final_step(f, th, flag, t)

\* Thread t takes its next step.
ThreadStep(t) ==
    /\ LET r == scan_step(fs, threads[t], stop_loading_flag, t)
       IN  /\ threads' = [threads EXCEPT ![t] = r.th]
           /\ queue' = queue \o r.msgs
           /\ emitted' = [emitted EXCEPT ![t] = @ \o r.msgs]
    /\ UNCHANGED <<fs, storeVars, appVars, ghostVars, cancel_req, userVars>>

ScanWalk(t) ==
    /\ t <= Len(threads)
    /\ threads[t].pc = "walk"
    /\ ThreadStep(t)

ScanList(t) ==
    /\ t <= Len(threads)
    /\ threads[t].pc = "list"
    /\ ThreadStep(t)

ScanCheck(t) ==
    /\ t <= Len(threads)
    /\ threads[t].pc = "check"
    /\ ThreadStep(t)

ScanPut(t) ==
    /\ t <= Len(threads)
    /\ threads[t].pc = "put"
    /\ ThreadStep(t)

ScanFinal(t) ==
    /\ t <= Len(threads)
    /\ threads[t].pc = "final"
    /\ ThreadStep(t)


\* Every message of a scan that nothing cancels.
RECURSIVE run_scan(_, _, _)
run_scan(f, th, t) ==
    IF th.pc = "done" THEN <<>>
    ELSE LET r == scan_step(f, th, FALSE, t)
         IN  r.msgs \o run_scan(f, r.th, t)

----------------------------------------------------------------------------
(* process_queue, lines 830-902 *)

\* The record of the moment the loading_cancelled of a scan is applied.
NoteEnd(ends, scan, tr, errors) ==
    [k \in DOMAIN ends \cup {scan} |->
        IF k = scan THEN [nodes |-> Cardinality(DOMAIN tr) - 1, errors |-> errors]
        ELSE ends[k]]

\* A count that takes every entry for a file.
update_file_count_every_entry(fi) ==
    [folders |-> Cardinality({i \in DOMAIN fi : fi[i].is_dir}),
     files |-> Cardinality(DOMAIN fi)]

\* update_file_count, lines 941-945
update_file_count(fi) ==
    [folders |-> Cardinality({i \in DOMAIN fi : fi[i].is_dir}),
     files |-> Cardinality({i \in DOMAIN fi : ~fi[i].is_dir})]

\* The record of the moment the loading_complete of a scan is applied.
NoteComplete(ends, scan, st) ==
    [k \in DOMAIN ends \cup {scan} |->
        IF k = scan
        THEN [tree |-> st.tree, file_items |-> st.file_items, origin |-> st.origin,
              is_loading |-> st.is_loading, buttons |-> st.buttons,
              file_count |-> st.file_count]
        ELSE ends[k]]

\* A loading_complete branch that leaves is_loading and the buttons alone.
apply_complete_still_loading(st) ==
    [st EXCEPT !.file_count = update_file_count(st.file_items),
               !.status = "Loaded folder"]

\* The loading_complete branch, lines 858-863.
apply_complete(st) ==
    [st EXCEPT !.is_loading = FALSE, !.buttons = "normal",
               !.file_count = update_file_count(st.file_items),
               !.status = "Loaded folder"]

\* A loading_cancelled branch that also empties the tree.
apply_cancelled_clearing(st) ==
    [st EXCEPT !.is_loading = FALSE, !.buttons = "normal",
               !.status = "Loading cancelled",
               !.tree = EmptyTree, !.file_items = [i \in {} |-> 0]]

\* The loading_cancelled branch, lines 865-869.
apply_cancelled(st) ==
    [st EXCEPT !.is_loading = FALSE, !.buttons = "normal",
               !.status = "Loading cancelled"]

\* The loading_error branch, lines 871-876.
apply_error(st) ==
    [st EXCEPT !.is_loading = FALSE, !.buttons = "normal",
               !.status = "Error loading folder"]

\* update of the state by one message; raised tells that tree.insert raised
\* TclError, which ends the tick (the message is consumed, line 849 is skipped).
apply_message(st, msg) ==
    IF msg.type = "add_item" THEN
        IF insert_raises(st.tree, msg.parent_id, msg.item_id)
        THEN [st EXCEPT !.raised = TRUE,
                        !.tcl_errors = @ \cup {IF ~exists(st.tree, msg.parent_id)
                                               THEN "parent_not_found"
                                               ELSE "already_exists"}]
        ELSE [st EXCEPT !.tree = insert(@, msg.parent_id, msg.item_id, msg.tags),
                        !.file_items = [i \in DOMAIN @ \cup {msg.item_id} |->
                                          IF i = msg.item_id
                                          THEN [path |-> msg.path, is_dir |-> msg.is_dir]
                                          ELSE @[i]],
                        !.origin = [i \in DOMAIN @ \cup {msg.item_id} |->
                                      IF i = msg.item_id THEN msg.scan ELSE @[i]],
                        !.late_adds = IF msg.scan \in st.cancel_applied
                                      THEN @ \cup {msg.scan} ELSE @]
    ELSE IF msg.type = "loading_complete" THEN
        [apply_complete(st) EXCEPT
            !.complete_end = NoteComplete(@, msg.scan, apply_complete(st))]
    ELSE IF msg.type = "loading_cancelled" THEN
        [apply_cancelled(st) EXCEPT
            !.cancel_applied = @ \cup {msg.scan},
            !.cancel_end = IF msg.scan \in DOMAIN @ THEN @
                           ELSE NoteEnd(@, msg.scan, st.tree, st.tcl_errors)]
    ELSE IF msg.type = "loading_error" THEN apply_error(st)
    ELSE st   \* loading_progress sets the loading label, loading_warning prints

\* The while loop of lines 833-897: get_nowait() until queue.Empty or an
\* exception leaves the loop.
RECURSIVE drain(_)
drain(st) ==
    IF st.queue = <<>> THEN st
    ELSE CHOOSE out \in
            {IF s1.raised THEN s1 ELSE drain(s1) :
                s1 \in {apply_message([st EXCEPT !.queue = Tail(@)], Head(st.queue))}} :
            TRUE

\* What process_queue reads and writes, as a record.
dispatch_state ==
    [tree |-> tree, file_items |-> file_items,
     origin |-> origin, file_count |-> file_count,
     is_loading |-> is_loading, buttons |-> buttons,
     status |-> status, queue |-> queue, tcl_errors |-> tcl_errors,
     cancel_applied |-> cancel_applied, late_adds |-> late_adds,
     cancel_end |-> cancel_end, complete_end |-> complete_end,
     raised |-> FALSE]

ProcessQueue ==
    /\ queue # <<>>
    /\ LET st == drain(dispatch_state)
       IN  /\ tree' = st.tree
           /\ file_items' = st.file_items
           /\ is_loading' = st.is_loading
           /\ buttons' = st.buttons
           /\ status' = st.status
           /\ queue' = st.queue
           /\ tcl_errors' = st.tcl_errors
           /\ cancel_applied' = st.cancel_applied
           /\ late_adds' = st.late_adds
           /\ cancel_end' = st.cancel_end
           /\ complete_end' = st.complete_end
           /\ origin' = st.origin
           /\ file_count' = st.file_count
    /\ UNCHANGED <<fs, current_folder, stop_loading_flag, threads, scanGhost, userVars>>

----------------------------------------------------------------------------
(* Starting and cancelling a scan *)

Op(op, item, error) == [op |-> op, item |-> item, error |-> error]

\* clear_tree, lines 793-797
clear_tree_items == EmptyTree
clear_file_items == [i \in {} |-> [path |-> 0, is_dir |-> FALSE]]
NoOrigin == [i \in {} |-> 0]

\* load_tree_async from line 665 on, for a folder that exists.
load_tree_async ==
    /\ tree' = clear_tree_items
    /\ file_items' = clear_file_items
    /\ origin' = NoOrigin
    /\ is_loading' = TRUE
    /\ stop_loading_flag' = FALSE
    /\ buttons' = "disabled"
    /\ threads' = Append(threads, NewThread(fs))

\* A test that only looks for a folder having been chosen.
invalid_folder_unset_only(folder, f) == folder = None

\* The test of line 661.
invalid_folder(folder, f) == folder = None \/ ~folder_exists(f)

\* load_tree_async, lines 659-684, called while nothing is loading (its
\* callers cancel first, or test is_loading): messagebox.showerror and
\* return, or the start of a scan.
LoadTreeAsync ==
    /\ ~is_loading
    /\ IF invalid_folder(current_folder, fs)
       THEN /\ lastOp' = Op("load_tree_async", Root, TRUE)
            /\ UNCHANGED <<storeVars, is_loading, stop_loading_flag, buttons, threads,
                           emitted>>
       ELSE /\ Len(threads) < MaxScans
            /\ load_tree_async
            /\ emitted' = Append(emitted, <<>>)
            /\ lastOp' = Op("load_tree_async", Root, FALSE)
    /\ UNCHANGED <<fs, current_folder, status, file_count, queue, ghostVars, cancel_req,
                   selected_files, preTree>>

\* The folder is deleted on disk while no scanner thread is running.
Vanish ==
    /\ folder_exists(fs)
    /\ \A t \in 1..Len(threads) : threads[t].pc = "done"
    /\ fs' = FS_Missing
    /\ UNCHANGED <<storeVars, appVars, queue, threads, ghostVars, scanGhost, userVars>>

\* The scans a call of cancel_loading that finds is_loading set cancels: the
\* scan being loaded, and every scanner thread still running, which reads the
\* same flag.
CancelledScans(ths) == {Len(ths)} \cup {t \in 1..Len(ths) : ths[t].pc # "done"}

\* The record of a cancel_loading call: for every scan it cancels for the
\* first time, how many messages the scan had emitted and whether the tree
\* held a node.
NoteCancel(req, ths, em, tr) ==
    [k \in DOMAIN req \cup CancelledScans(ths) |->
        IF k \in DOMAIN req THEN req[k]
        ELSE [at |-> Len(em[k]), had_nodes |-> DOMAIN tr # {Root}]]

\* The messages of line 815 in the record of the scan being loaded.
EmitCancelled(em, ths) ==
    [em EXCEPT ![Len(ths)] = Append(@, Msg("loading_cancelled", Len(ths)))]

\* select_folder with a folder chosen in the dialog: cancel_loading, then
\* load_tree_async.  (While a scan is loading this is what pressing Cancel
\* and then Select Folder does.)
SelectFolder ==
    /\ Len(threads) < MaxScans
    /\ current_folder' = Folder
    /\ IF is_loading
       THEN /\ queue' = Append(queue, Msg("loading_cancelled", Len(threads)))
            /\ status' = "Loading cancelled"
            /\ cancel_req' = NoteCancel(cancel_req, threads, emitted, tree)
            /\ emitted' = Append(EmitCancelled(emitted, threads), <<>>)
       ELSE /\ UNCHANGED <<queue, status, cancel_req>>
            /\ emitted' = Append(emitted, <<>>)
    /\ load_tree_async
    /\ UNCHANGED <<fs, file_count, ghostVars, userVars>>

\* A test that also lets a cancel through once the flag is set.
cancel_applies_again(loading) == loading \/ stop_loading_flag

\* The test of line 812.
cancel_applies(loading) == loading

\* cancel_loading, lines 810-818; also select_folder with the dialog dismissed.
CancelLoading ==
    /\ IF cancel_applies(is_loading)
       THEN /\ stop_loading_flag' = TRUE
            /\ is_loading' = FALSE
            /\ queue' = Append(queue, Msg("loading_cancelled", Len(threads)))
            /\ buttons' = "normal"
            /\ status' = "Loading cancelled"
            /\ cancel_req' = NoteCancel(cancel_req, threads, emitted, tree)
            /\ emitted' = EmitCancelled(emitted, threads)
       ELSE UNCHANGED <<stop_loading_flag, is_loading, queue, buttons, status, scanGhost>>
    /\ UNCHANGED <<fs, storeVars, current_folder, file_count, threads, ghostVars, userVars>>

\* refresh_tree, lines 904-907
RefreshTree ==
    /\ Len(threads) < MaxScans
    /\ IF current_folder # None /\ ~is_loading
       THEN /\ load_tree_async
            /\ emitted' = Append(emitted, <<>>)
       ELSE UNCHANGED <<tree, file_items, origin, is_loading, stop_loading_flag, buttons,
                        threads, emitted>>
    /\ UNCHANGED <<fs, current_folder, status, file_count, queue, ghostVars, cancel_req,
                   userVars>>

----------------------------------------------------------------------------
(* The user's handlers on the tree *)

\* _handle_click on the row of an item: toggle_check(item).
Toggle(item) ==
    /\ exists(tree, item)
    /\ tree' = toggle_check(tree, item).tree
    /\ lastOp' = Op("toggle", item, FALSE)
    /\ preTree' = tree
    /\ UNCHANGED <<fs, file_items, origin, appVars, queue, threads, ghostVars, scanGhost,
                   selected_files>>

\* toggle_check with an id that is not an item of the tree.
ToggleUnknown(item) ==
    /\ ~exists(tree, item)
    /\ LET r == toggle_check(tree, item)
       IN  /\ tree' = r.tree
           /\ lastOp' = Op("toggle", item, r.error)
    /\ preTree' = tree
    /\ UNCHANGED <<fs, file_items, origin, appVars, queue, threads, ghostVars, scanGhost,
                   selected_files>>

\* check_recursive / uncheck_recursive, lines 952-955 and 965-968
RECURSIVE set_recursive(_, _, _)
RECURSIVE set_recursive_children(_, _, _, _)

\* check_recursive without the loop over the children of lines 954-955.
set_recursive_shallow(tr, item_id, tag) == set_tags(tr, item_id, {tag})

set_recursive_children(tr, children, k, tag) ==
    IF k > Len(children) THEN tr
    ELSE set_recursive_children(set_recursive(tr, children[k], tag), children, k + 1, tag)

set_recursive(tr, item_id, tag) ==
    set_recursive_children(set_tags(tr, item_id, {tag}), tr[item_id].children, 1, tag)

\* check_all without the early return of lines 949-950.
check_all_unguarded(tr, loading) ==
    set_recursive_children(tr, tr[Root].children, 1, Checked)

\* check_all and uncheck_all, lines 947-971
check_all(tr, loading) ==
    IF loading THEN tr ELSE set_recursive_children(tr, tr[Root].children, 1, Checked)

uncheck_all(tr, loading) ==
    IF loading THEN tr ELSE set_recursive_children(tr, tr[Root].children, 1, Unchecked)

CheckAll ==
    /\ tree' = check_all(tree, is_loading)
    /\ lastOp' = Op("check_all", Root, FALSE)
    /\ preTree' = tree
    /\ UNCHANGED <<fs, file_items, origin, appVars, queue, threads, ghostVars, scanGhost,
                   selected_files>>

UncheckAll ==
    /\ tree' = uncheck_all(tree, is_loading)
    /\ lastOp' = Op("uncheck_all", Root, FALSE)
    /\ preTree' = tree
    /\ UNCHANGED <<fs, file_items, origin, appVars, queue, threads, ghostVars, scanGhost,
                   selected_files>>

\* compile_selected, lines 979-982: the paths of the checked items that are
\* not directories, in the order get_checked_items gives.
RECURSIVE not_dirs(_, _)
not_dirs(items, fi) ==
    IF items = <<>> THEN <<>>
    ELSE (IF ~fi[Head(items)].is_dir THEN <<fi[Head(items)].path>> ELSE <<>>)
            \o not_dirs(Tail(items), fi)

\* The list of lines 980-982 without the is_dir filter.
compile_selected_files_unfiltered(tr, fi) ==
    [k \in 1..Len(get_checked_items(tr)) |-> fi[get_checked_items(tr)[k]].path]

compile_selected_files(tr, fi) == not_dirs(get_checked_items(tr), fi)

CompileSelected ==
    /\ IF is_loading THEN UNCHANGED selected_files
       ELSE selected_files' = compile_selected_files(tree, file_items)
    /\ lastOp' = Op("compile_selected", Root, is_loading)
    /\ preTree' = tree
    /\ UNCHANGED <<fs, storeVars, appVars, queue, threads, ghostVars, scanGhost>>

----------------------------------------------------------------------------
(* Specifications *)

NoOp == Op("none", Root, FALSE)
NoEnds == [k \in {} |-> [nodes |-> 0, errors |-> {}]]
NoRequests == [k \in {} |-> [at |-> 0, had_nodes |-> FALSE]]
NoCompletes == [k \in {} |-> 0]
\* file_count_var shows "Files: 0" until update_file_count runs.
NoCount == [folders |-> 0, files |-> 0]

\* The application after __init__: no folder, nothing loaded.
Constructed ==
    /\ tree = EmptyTree
    /\ file_items = clear_file_items
    /\ origin = NoOrigin
    /\ file_count = NoCount
    /\ current_folder = None
    /\ is_loading = FALSE
    /\ stop_loading_flag = FALSE
    /\ buttons = "normal"
    /\ status = "Ready to select folder"
    /\ queue = <<>>
    /\ threads = <<>>
    /\ tcl_errors = {}
    /\ cancel_applied = {}
    /\ late_adds = {}
    /\ cancel_end = NoEnds
    /\ complete_end = NoCompletes
    /\ emitted = <<>>
    /\ cancel_req = NoRequests
    /\ selected_files = <<>>
    /\ lastOp = NoOp
    /\ preTree = EmptyTree

Init ==
    /\ fs \in ScanFileSystems
    /\ Constructed

Next ==
    \/ SelectFolder
    \/ RefreshTree
    \/ CancelLoading
    \/ ProcessQueue
    \/ \E t \in 1..MaxScans : ScanWalk(t)
    \/ \E t \in 1..MaxScans : ScanList(t)
    \/ \E t \in 1..MaxScans : ScanCheck(t)
    \/ \E t \in 1..MaxScans : ScanPut(t)
    \/ \E t \in 1..MaxScans : ScanFinal(t)

Spec == Init /\ [][Next]_vars

\* The first scan of a folder, from select_folder to the scan's end, for
\* every order in which the directories may be listed.
InitScan ==
    /\ fs \in UNION {Relistings(f) : f \in DiscoveryFileSystems}
    /\ Constructed

FirstSelectFolder ==
    /\ threads = <<>>
    /\ SelectFolder

NextScan ==
    \/ FirstSelectFolder
    \/ CancelLoading
    \/ ProcessQueue
    \/ \E t \in 1..MaxScans : ScanWalk(t)
    \/ \E t \in 1..MaxScans : ScanList(t)
    \/ \E t \in 1..MaxScans : ScanCheck(t)
    \/ \E t \in 1..MaxScans : ScanPut(t)
    \/ \E t \in 1..MaxScans : ScanFinal(t)

SpecScan == InitScan /\ [][NextScan]_vars

\* One step of scanner thread t, whatever its position.
ScanStep(t) ==
    ScanWalk(t) \/ ScanList(t) \/ ScanCheck(t) \/ ScanPut(t) \/ ScanFinal(t)

\* The scheduling the code sets up: process_queue re-arms itself every
\* 50 ms in its finally clause (lines 899-902, first armed at line 156), and
\* every scanner thread is started (line 683) and runs until it returns.
\* Nothing obliges the user to press a button.
Scheduling ==
    /\ WF_vars(ProcessQueue)
    /\ \A t \in 1..MaxScans : WF_vars(ScanStep(t))

SpecFair == Spec /\ Scheduling

SpecScanFair == SpecScan /\ Scheduling

\* One scan of a folder with the user clicking rows of the tree while the
\* scan is loading: _handle_click is bound to the tree and is not disabled
\* by set_buttons_state.
StreamFileSystems == {FS_S}

InitStream ==
    /\ fs \in StreamFileSystems
    /\ Constructed

NextStream ==
    \/ FirstSelectFolder
    \/ CancelLoading
    \/ ProcessQueue
    \/ \E item \in AllIds : Toggle(item)
    \/ \E t \in 1..MaxScans : ScanWalk(t)
    \/ \E t \in 1..MaxScans : ScanList(t)
    \/ \E t \in 1..MaxScans : ScanCheck(t)
    \/ \E t \in 1..MaxScans : ScanPut(t)
    \/ \E t \in 1..MaxScans : ScanFinal(t)

SpecStream == InitStream /\ [][NextStream]_vars

\* The buttons pressed at any moment of a scan, loading or not: Check All,
\* Uncheck All, Compile and Refresh beside the scan and the ticks.
NextControls ==
    \/ FirstSelectFolder
    \/ RefreshTree
    \/ ProcessQueue
    \/ CheckAll
    \/ UncheckAll
    \/ CompileSelected
    \/ \E t \in 1..MaxScans : ScanWalk(t)
    \/ \E t \in 1..MaxScans : ScanList(t)
    \/ \E t \in 1..MaxScans : ScanCheck(t)
    \/ \E t \in 1..MaxScans : ScanPut(t)
    \/ \E t \in 1..MaxScans : ScanFinal(t)

SpecControls == InitStream /\ [][NextControls]_vars

\* load_tree_async called with no folder chosen, with a folder that is
\* there, and with a folder that has been deleted since it was loaded.
ExistingFolderSelected ==
    /\ folder_exists(fs)
    /\ FirstSelectFolder

NextLoad ==
    \/ ExistingFolderSelected
    \/ LoadTreeAsync
    \/ Vanish
    \/ CancelLoading
    \/ ProcessQueue
    \/ \E t \in 1..MaxScans : ScanWalk(t)
    \/ \E t \in 1..MaxScans : ScanList(t)
    \/ \E t \in 1..MaxScans : ScanCheck(t)
    \/ \E t \in 1..MaxScans : ScanPut(t)
    \/ \E t \in 1..MaxScans : ScanFinal(t)

InitLoad ==
    /\ fs = FS_Dot
    /\ Constructed

SpecLoad == InitLoad /\ [][NextLoad]_vars

\* One tick of process_queue as a function of what the queue holds: every
\* kind of message a scan can put (loading_error is put only by the handler
\* of lines 716-718), in every order, on a tree that holds the first
\* entries of a scan.
MessageKinds ==
    {"loading_progress", "loading_warning", "loading_cancelled", "loading_error",
     "loading_complete"}

\* The add_item messages of an uncancelled scan of f, in the order put.
scan_adds(f) ==
    SelectSeq(run_scan(f, NewThread(f), 1), LAMBDA m : m.type = "add_item")

DispatchMessages(f) ==
    {Msg(type, 1) : type \in MessageKinds}
        \cup {scan_adds(f)[i] : i \in 1..Len(scan_adds(f))}

Pending(f) == UNION {[1..n -> DispatchMessages(f)] : n \in 0..MaxPending}

\* The dispatcher after the first n add_items of a scan of f were applied.
PartlyLoaded(f, n) ==
    drain([tree |-> EmptyTree, file_items |-> clear_file_items,
           origin |-> NoOrigin, file_count |-> NoCount, complete_end |-> NoCompletes,
           is_loading |-> TRUE, buttons |-> "disabled", status |-> "Ready to select folder",
           queue |-> SubSeq(scan_adds(f), 1, n), tcl_errors |-> {},
           cancel_applied |-> {}, late_adds |-> {}, cancel_end |-> NoEnds,
           raised |-> FALSE])

InitDispatch ==
    /\ fs \in StreamFileSystems
    /\ \E n \in 0..Len(fs.entries) :
          LET st == PartlyLoaded(fs, n)
          IN  /\ tree = st.tree
              /\ file_items = st.file_items
              /\ origin = st.origin
              /\ queue \in Pending(fs)
              /\ emitted = <<SubSeq(scan_adds(fs), 1, n) \o queue>>
    /\ file_count = NoCount
    /\ is_loading = TRUE
    /\ buttons = "disabled"
    /\ status = "Ready to select folder"
    /\ current_folder = Folder
    /\ stop_loading_flag = FALSE
    /\ threads = <<DoneThread>>
    /\ tcl_errors = {}
    /\ cancel_applied = {}
    /\ late_adds = {}
    /\ cancel_end = NoEnds
    /\ complete_end = NoCompletes
    /\ cancel_req = NoRequests
    /\ selected_files = <<>>
    /\ lastOp = NoOp
    /\ preTree = EmptyTree

NextDispatch == ProcessQueue

SpecDispatch == InitDispatch /\ [][NextDispatch]_vars

\* The application after one folder has been selected and its scan has
\* completed and been applied: the state the selection handlers start from.
LoadedState(f) ==
    drain([tree |-> EmptyTree, file_items |-> clear_file_items,
           origin |-> NoOrigin, file_count |-> NoCount, complete_end |-> NoCompletes,
           is_loading |-> TRUE, buttons |-> "disabled", status |-> "Ready to select folder",
           queue |-> run_scan(f, NewThread(f), 1), tcl_errors |-> {},
           cancel_applied |-> {}, late_adds |-> {}, cancel_end |-> NoEnds,
           raised |-> FALSE])

InitSelection ==
    /\ fs \in SelectionFileSystems
    /\ LET st == LoadedState(fs)
       IN  /\ tree = st.tree
           /\ file_items = st.file_items
           /\ is_loading = st.is_loading
           /\ buttons = st.buttons
           /\ status = st.status
           /\ queue = st.queue
           /\ tcl_errors = st.tcl_errors
           /\ cancel_applied = st.cancel_applied
           /\ late_adds = st.late_adds
           /\ cancel_end = st.cancel_end
           /\ complete_end = st.complete_end
           /\ origin = st.origin
           /\ file_count = st.file_count
    /\ emitted = <<run_scan(fs, NewThread(fs), 1)>>
    /\ cancel_req = NoRequests
    /\ current_folder = Folder
    /\ stop_loading_flag = FALSE
    /\ threads = <<DoneThread>>
    /\ selected_files = <<>>
    /\ lastOp = NoOp
    /\ preTree = EmptyTree

NextSelection ==
    \/ \E item \in AllIds : Toggle(item)
    \/ \E item \in AllIds \cup {UnknownId} : ToggleUnknown(item)
    \/ CheckAll
    \/ UncheckAll
    \/ CompileSelected

SpecSelection == InitSelection /\ [][NextSelection]_vars

----------------------------------------------------------------------------
(* Properties of the selection engine *)

ChildSet(tr, n) == {tr[n].children[k] : k \in 1..Len(tr[n].children)}

\* The state a node with children must show: Checked iff all children are
\* Checked, Unchecked iff all are Unchecked, Mixed otherwise.
DerivedState(tr, n) ==
    IF \A ch \in ChildSet(tr, n) : check_state(tr, ch) = Checked THEN Checked
    ELSE IF \A ch \in ChildSet(tr, n) : check_state(tr, ch) = Unchecked THEN Unchecked
    ELSE Mixed

ToggleDone == lastOp.op = "toggle" /\ ~lastOp.error

\* C1: after every toggle of a sequence of toggles on a freshly scanned tree,
\* every node that has children shows the state derived from its children,
\* so every ancestor of the toggled node has been recomputed.
C1_DerivedStateAfterToggle ==
    \A n \in Items(tree) :
        tree[n].children # <<>> => check_state(tree, n) = DerivedState(tree, n)

\* C5: toggling the same leaf twice in succession returns every ancestor of
\* the leaf to the state it had before the first toggle.
C5_ToggleLeafTwiceRestores ==
    [][(/\ ToggleDone
        /\ lastOp'.op = "toggle" /\ ~lastOp'.error
        /\ lastOp'.item = lastOp.item
        /\ tree[lastOp.item].children = <<>>)
       => \A a \in Ancestors(tree, lastOp.item) :
              check_state(tree', a) = check_state(preTree, a)]_vars

\* C6: toggle(n) leaves n Unchecked when n was Checked, and Checked when n
\* was Unchecked or Mixed.
C6_ToggleFlips ==
    ToggleDone =>
        check_state(tree, lastOp.item) =
            (IF check_state(preTree, lastOp.item) = Checked THEN Unchecked ELSE Checked)

\* A toggle of a Mixed node has just made it Checked.
C6_Witness ==
    /\ ToggleDone
    /\ check_state(preTree, lastOp.item) = Mixed
    /\ check_state(tree, lastOp.item) = Checked

\* C7: after toggle(n), n and every descendant of n, at any depth, hold the
\* same state, which is Checked or Unchecked.
C7_ToggleSetsSubtree ==
    ToggleDone =>
        /\ check_state(tree, lastOp.item) \in {Checked, Unchecked}
        /\ \A j \in Descendants(tree, lastOp.item) :
               check_state(tree, j) = check_state(tree, lastOp.item)

\* A toggle has just run on a node with a grandchild whose subtree held
\* different states before.
C7_Witness ==
    /\ ToggleDone
    /\ \E j \in Descendants(tree, lastOp.item) :
          /\ tree[j].parent # lastOp.item
          /\ check_state(preTree, j) = Unchecked
          /\ check_state(tree, j) = Checked
    /\ \E j \in Descendants(tree, lastOp.item) : check_state(preTree, j) = Checked

SeqSet(q) == {q[k] : k \in 1..Len(q)}

\* The File-kind nodes whose state is Checked.
CheckedFiles ==
    {i \in Items(tree) : ~file_items[i].is_dir /\ check_state(tree, i) = Checked}

FileChildren(n, state) ==
    {ch \in ChildSet(tree, n) : ~file_items[ch].is_dir /\ check_state(tree, ch) = state}

\* C8: the list compile_selected hands to the export holds exactly the
\* Checked File nodes, each once: no directory, no Unchecked or Mixed node,
\* no Checked file left out; and a directory with Checked and Unchecked files
\* among its children is Mixed.
C8_SelectionIsCheckedFiles ==
    /\ (lastOp.op = "compile_selected" /\ ~lastOp.error) =>
          /\ SeqSet(selected_files) = {file_items[i].path : i \in CheckedFiles}
          /\ Len(selected_files) = Cardinality(CheckedFiles)
    /\ \A n \in Items(tree) :
          (FileChildren(n, Checked) # {} /\ FileChildren(n, Unchecked) # {})
              => check_state(tree, n) = Mixed

\* compile_selected has just run on a directory holding two Checked files
\* and one Unchecked file, and selected the two.
C8_Witness ==
    /\ lastOp.op = "compile_selected" /\ ~lastOp.error
    /\ \E n \in Items(tree) :
          /\ Cardinality(FileChildren(n, Checked)) = 2
          /\ Cardinality(FileChildren(n, Unchecked)) = 1
          /\ check_state(tree, n) = Mixed
          /\ SeqSet(selected_files) = FileChildren(n, Checked)

\* C9: check_all leaves every node Checked and uncheck_all leaves every node
\* Unchecked, whatever the states were before.
C9_CheckAllUncheckAll ==
    /\ lastOp.op = "check_all" => \A n \in Items(tree) : check_state(tree, n) = Checked
    /\ lastOp.op = "uncheck_all" => \A n \in Items(tree) : check_state(tree, n) = Unchecked

\* check_all has just run on a tree that held a Mixed directory and an
\* Unchecked node two levels down.
C9_Witness ==
    /\ lastOp.op = "check_all"
    /\ \E n \in Items(preTree) : check_state(preTree, n) = Mixed
    /\ \E n \in Items(preTree) :
          /\ preTree[n].parent # Root
          /\ check_state(preTree, n) = Unchecked
          /\ check_state(tree, n) = Checked

\* C10: toggle on an id that is not in the tree reports an error and changes
\* the state of no node.
C10_ToggleUnknownId ==
    (lastOp.op = "toggle" /\ ~exists(preTree, lastOp.item)) =>
        /\ lastOp.error
        /\ tree = preTree

\* toggle has just been called with an unknown id on a tree that holds
\* Checked and Mixed nodes.
C10_Witness ==
    /\ lastOp.op = "toggle" /\ ~exists(preTree, lastOp.item)
    /\ lastOp.error
    /\ \E n \in Items(tree) : check_state(tree, n) = Mixed
    /\ \E n \in Items(tree) : check_state(tree, n) = Checked

----------------------------------------------------------------------------
(* Properties of scanning *)

\* The scanner threads that have not returned yet.
ActiveScanners == {t \in 1..Len(threads) : threads[t].pc # "done"}

\* C2: once the loading_cancelled message of a scan has been applied, no
\* add_item message of that scan is inserted into the tree.
C2_NoAddAfterCancelled == late_adds = {}

\* C3: at most one scanner thread is active at any time; a scan starts only
\* after the scanner before it has returned.
C3_AtMostOneScanner == Cardinality(ActiveScanners) <= 1

\* C4: every add_item message applied names a parent that is the root or an
\* item of the tree, and every item of the tree has its parent in the tree.
C4_NoOrphan ==
    /\ "parent_not_found" \notin tcl_errors
    /\ \A n \in Items(tree) : exists(tree, tree[n].parent)

\* ---------------------------------------------------------------------
\* Cancellation of a scan
\* ---------------------------------------------------------------------

\* The messages scan k has emitted since its cancellation was requested.
EmittedAfter(k) == SubSeq(emitted[k], cancel_req[k].at + 1, Len(emitted[k]))

TypesOf(msgs) == {msgs[i].type : i \in 1..Len(msgs)}

AddsIn(msgs) == SelectSeq(msgs, LAMBDA m : m.type = "add_item")

\* C11: a scan whose cancellation has been requested has a loading_cancelled
\* among its messages and emits no loading_complete after the request,
\* whatever is done afterwards.
C11_CancelledNeverCompletes ==
    \A k \in DOMAIN cancel_req :
        /\ "loading_cancelled" \in TypesOf(emitted[k])
        /\ "loading_complete" \notin TypesOf(EmittedAfter(k))

\* C12: after the cancellation of a scan is requested, the scan enqueues at
\* most one more add_item.
C12_AtMostOneAddAfterCancel ==
    \A k \in DOMAIN cancel_req : Len(AddsIn(EmittedAfter(k))) <= 1

\* C13: when the loading_cancelled of a scan that was cancelled with a node
\* already in the tree is applied, the tree holds between one and N nodes,
\* N the number of entries under the root, and no insert has raised.
C13_CancelledScanKeepsPartialTree ==
    \A k \in DOMAIN cancel_end \cap DOMAIN cancel_req :
        cancel_req[k].had_nodes =>
            /\ cancel_end[k].nodes >= 1
            /\ cancel_end[k].nodes <= Len(fs.entries)
            /\ cancel_end[k].errors = {}

\* ---------------------------------------------------------------------
\* Order of discovery
\* ---------------------------------------------------------------------

\* Entry a may come before entry b among the entries of one directory:
\* a directory before a file, and within each group no name after a name
\* that is greater without regard to case.
MayPrecede(f, a, b) ==
    IF f.entries[a].is_dir # f.entries[b].is_dir THEN f.entries[a].is_dir
    ELSE ~str_less(lower(f.entries[b].name), lower(f.entries[a].name))

Ordered(f, ids) == \A i, j \in 1..Len(ids) : i < j => MayPrecede(f, ids[i], ids[j])

\* The ids of the add_items of msgs whose parent is d, in order.
ChildAdds(msgs, d) ==
    LET sel == SelectSeq(msgs, LAMBDA m : m.type = "add_item" /\ m.parent_id = d)
    IN  [i \in 1..Len(sel) |-> sel[i].item_id]

EmittedInOrder ==
    \A k \in 1..Len(emitted) : \A d \in {Root} \cup AllIds :
        Ordered(fs, ChildAdds(emitted[k], d))

StoredInOrder == \A n \in DOMAIN tree : Ordered(fs, tree[n].children)

\* C14: the add_items of the direct entries of every directory are emitted
\* directories first and in ascending case-insensitive name order within
\* each group, and the children of every node of the tree are in that order.
C14_SortedChildren == EmittedInOrder /\ StoredInOrder

\* Scan k has returned and no cancel_loading call was made while it ran.
Uncancelled(k) == threads[k].pc = "done" /\ k \notin DOMAIN cancel_req

\* C15: an uncancelled scan emits the same sequence of add_items as an
\* uncancelled scan of the same snapshot for which iterdir() returns the
\* entries in any other order.
C15_OrderDeterminism ==
    \A k \in 1..Len(threads) :
        Uncancelled(k) =>
            \A g \in Relistings(fs) :
                AddsIn(emitted[k]) = AddsIn(run_scan(g, NewThread(g), k))

\* The names of the entries of the add_items of msgs, in order.
AddNames(msgs) ==
    LET adds == AddsIn(msgs)
    IN  [i \in 1..Len(adds) |-> fs.entries[adds[i].item_id].name]

\* C16 as stated: an uncancelled scan of src/{util.py}, main.py, readme.md
\* emits src, main.py, readme.md, util.py.
C16_ScenarioLevelOrder ==
    \A k \in 1..Len(threads) :
        fs.entries = FS_A.entries /\ Uncancelled(k) =>
            AddNames(emitted[k]) = <<n_src, n_main, n_readme, n_util>>

\* C16, amended: an uncancelled scan of src/{util.py}, main.py, readme.md
\* emits src, util.py, main.py, readme.md: the entries of a directory
\* follow it at once, before its later siblings.
C16_ScenarioPreOrder ==
    \A k \in 1..Len(threads) :
        fs.entries = FS_A.entries /\ Uncancelled(k) =>
            AddNames(emitted[k]) = <<n_src, n_util, n_main, n_readme>>

C16_Witness ==
    /\ fs.entries = FS_A.entries
    /\ Len(threads) = 1
    /\ Uncancelled(1)
    /\ Len(AddsIn(emitted[1])) = Len(fs.entries)

\* add_item i of msgs names the parent of its entry, and that parent is the
\* root or the entry of an earlier add_item of msgs.
ParentEmittedBefore(msgs, i) ==
    /\ msgs[i].parent_id = fs.entries[msgs[i].item_id].parent
    /\ \/ msgs[i].parent_id = Root
       \/ \E j \in 1..(i - 1) :
            msgs[j].type = "add_item" /\ msgs[j].item_id = msgs[i].parent_id

\* C17: within one scan the add_item of a directory is enqueued before the
\* scanner is inside the directory and before the add_item of any of its
\* descendants, and every add_item names that directory as its parent.
C17_StrictPreOrder ==
    \A k \in 1..Len(threads) :
        /\ \A i \in 1..Len(emitted[k]) :
              emitted[k][i].type = "add_item" => ParentEmittedBefore(emitted[k], i)
        /\ \A n \in 1..Len(threads[k].stack) :
              LET d == threads[k].stack[n].dir
              IN  d # Root =>
                    \E j \in 1..Len(emitted[k]) :
                        emitted[k][j].type = "add_item" /\ emitted[k][j].item_id = d

\* A scanner has been inside a subdirectory and has emitted one of its
\* entries, and is still running.
C17_Witness ==
    \E k \in 1..Len(threads) :
        /\ threads[k].pc # "done"
        /\ \E i \in 1..Len(emitted[k]) :
              emitted[k][i].type = "add_item" /\ emitted[k][i].parent_id # Root

\* ---------------------------------------------------------------------
\* Failures of the listing, and the end of a scan
\* ---------------------------------------------------------------------

Last(msgs) == msgs[Len(msgs)]

\* C18: a scan whose root cannot be listed never emits loading_complete
\* and, left uncancelled, ends with loading_error as its last message; a
\* scan whose root can be listed never emits loading_error.
C18_RootFailureEmitsFailed ==
    \A k \in 1..Len(threads) :
        IF Root \in fs.unlistable
        THEN /\ "loading_complete" \notin TypesOf(emitted[k])
             /\ Uncancelled(k) =>
                    emitted[k] # <<>> /\ Last(emitted[k]).type = "loading_error"
        ELSE "loading_error" \notin TypesOf(emitted[k])

\* Entry e is not hidden and lies under directories that are neither hidden
\* nor unlistable.
RECURSIVE Shown(_, _)
Shown(f, e) ==
    /\ ~is_hidden(f, e)
    /\ f.entries[e].parent \notin f.unlistable
    /\ f.entries[e].parent # Root => Shown(f, f.entries[e].parent)

\* Entry e is entry s or lies below it.
RECURSIVE Under(_, _, _)
Under(f, e, s) ==
    \/ e = s
    \/ f.entries[e].parent # Root /\ Under(f, f.entries[e].parent, s)

\* Entry s is listed after entry d in the directory that holds both.
LaterSibling(f, d, s) ==
    LET items == listed_items(f, f.entries[d].parent)
    IN  /\ f.entries[s].parent = f.entries[d].parent
        /\ \E i, j \in 1..Len(items) : i < j /\ items[i] = d /\ items[j] = s

\* The subdirectories whose listing fails in a scan of f.
FailingSubdirs(f) == {d \in f.unlistable \ {Root} : Shown(f, d)}

\* C19: an uncancelled scan emits, for every subdirectory that cannot be
\* listed, the add_item of the subdirectory and right after it a
\* loading_warning, then the add_item of every later sibling and of every
\* shown entry below such a sibling, and ends with loading_complete.
C19_WarningKeepsScanning ==
    \A k \in 1..Len(threads) :
        Uncancelled(k) /\ Root \notin fs.unlistable =>
            /\ \A d \in FailingSubdirs(fs) :
                  \E i \in 1..(Len(emitted[k]) - 1) :
                      /\ emitted[k][i].type = "add_item"
                      /\ emitted[k][i].item_id = d
                      /\ emitted[k][i + 1].type = "loading_warning"
                      /\ \A e \in 1..Len(fs.entries) :
                            (Shown(fs, e) /\ \E s \in 1..Len(fs.entries) :
                                                LaterSibling(fs, d, s) /\ Under(fs, e, s))
                            => \E j \in (i + 2)..Len(emitted[k]) :
                                  emitted[k][j].type = "add_item" /\ emitted[k][j].item_id = e
            /\ emitted[k] # <<>>
            /\ Last(emitted[k]).type = "loading_complete"

\* An uncancelled scan of a folder with an unlistable subdirectory that has
\* later siblings has ended.
C19_Witness ==
    /\ Len(threads) = 1
    /\ Uncancelled(1)
    /\ \E d \in FailingSubdirs(fs) : \E s \in 1..Len(fs.entries) : LaterSibling(fs, d, s)

CompletedAt(msgs) == {i \in 1..Len(msgs) : msgs[i].type = "loading_complete"}

\* C20: a scan during which no cancellation is requested enqueues at most
\* one loading_complete, as the last of its messages, and has enqueued
\* exactly one when its thread has returned.
C20_OneCompletedLast ==
    \A k \in 1..Len(threads) :
        k \notin DOMAIN cancel_req =>
            /\ CompletedAt(emitted[k]) \subseteq {Len(emitted[k])}
            /\ threads[k].pc = "done" => CompletedAt(emitted[k]) = {Len(emitted[k])}
                                         /\ emitted[k] # <<>>

\* An uncancelled scan has ended after an add_item for every entry.
C20_Witness ==
    \E k \in 1..Len(threads) :
        /\ Uncancelled(k)
        /\ Len(AddsIn(emitted[k])) = Len(fs.entries)
        /\ Last(emitted[k]).type = "loading_complete"

\* ---------------------------------------------------------------------
\* The dispatcher and the tree it builds
\* ---------------------------------------------------------------------

\* The item ids of the add_items among msgs.
AddIds(msgs) == {msgs[i].item_id : i \in {j \in 1..Len(msgs) : msgs[j].type = "add_item"}}

\* Every load_tree_async leaves the tree without items.
EmptyAtStart == [][Len(threads') > Len(threads) => Items(tree') = {}]_vars

\* C21: once the loading_complete of a scan that was not cancelled has been
\* applied, the items of the tree are exactly the entries that scan emitted,
\* and each of them was inserted by an add_item of that scan.
C21_WholesaleReplace ==
    \A k \in DOMAIN complete_end \ DOMAIN cancel_req :
        LET end == complete_end[k]
        IN  /\ Items(end.tree) = AddIds(emitted[k])
            /\ \A i \in Items(end.tree) : end.origin[i] = k

\* A step of process_queue: the only step that takes messages off the queue.
Tick == Len(queue') < Len(queue)

\* C22: a tick applies every message pending in the queue, in order, and
\* leaves the queue empty: no insert raises and ends the tick with a message
\* consumed but not applied and the rest left pending.
C22_TickAppliesAll ==
    [][Tick => queue' = <<>> /\ ~drain(dispatch_state).raised]_vars

\* The number of times item i occurs among the children of the items of tr.
Occurrences(tr, i) ==
    Cardinality({<<n, k>> \in (DOMAIN tr) \X (1..Cardinality(DOMAIN tr)) :
                    k <= Len(tr[n].children) /\ tr[n].children[k] = i})

\* C23: every item of the tree occurs once in the tree, and process_queue
\* never takes an add_item whose id is already an item of the tree.
C23_UniqueIds ==
    /\ \A i \in Items(tree) : Occurrences(tree, i) = 1
    /\ "already_exists" \notin tcl_errors

\* C24: in every state of the whole system, also while a scan is loading
\* and the user toggles items between ticks, every item that has children
\* is Checked iff all its children are Checked, Unchecked iff all are
\* Unchecked, and Mixed otherwise.
C24_ConsistentWhileStreaming ==
    \A n \in Items(tree) :
        ChildSet(tree, n) # {} => check_state(tree, n) = DerivedState(tree, n)

\* The messages a tick takes off the queue.
Taken == SubSeq(queue, 1, Len(queue) - Len(queue'))

FrameKinds == {"loading_cancelled", "loading_error", "loading_warning", "loading_progress"}

\* C25: a tick that takes only loading_cancelled, loading_error,
\* loading_warning and loading_progress messages leaves the items of the
\* tree, their parents, children and tags and file_items as they were, and
\* when a loading_cancelled or a loading_error is among them is_loading is
\* false and the buttons are enabled afterwards.
C25_FrameOfStatusMessages ==
    [][(Tick /\ TypesOf(Taken) \subseteq FrameKinds) =>
          /\ tree' = tree
          /\ file_items' = file_items
          /\ (TypesOf(Taken) \cap {"loading_cancelled", "loading_error"} # {}) =>
                ~is_loading' /\ buttons' = "normal"]_vars

\* A loading_error has been applied to a tree that holds a checked-state
\* item of a partly loaded scan, and the item is still there.
C25_Witness ==
    /\ status = "Error loading folder"
    /\ ~is_loading
    /\ buttons = "normal"
    /\ queue = <<>>
    /\ Items(tree) # {}
    /\ TypesOf(Last(emitted)) \subseteq FrameKinds \cup {"add_item"}

\* The items of a tree that carry the tag of a kind ("folder" or "file").
OfKind(tr, kind) == {i \in Items(tr) : kind \in tr[i].tags}

\* C26: right after a loading_complete has been applied is_loading is
\* false, the buttons are enabled, and the displayed folder and file counts
\* are the numbers of folder items and of file items then in the tree.
C26_CompletedCounts ==
    \A k \in DOMAIN complete_end :
        LET end == complete_end[k]
        IN  /\ ~end.is_loading
            /\ end.buttons = "normal"
            /\ end.file_count.folders = Cardinality(OfKind(end.tree, "folder"))
            /\ end.file_count.files = Cardinality(OfKind(end.tree, "file"))

\* A loading_complete has been applied to a tree that holds folders and files.
C26_Witness ==
    \E k \in DOMAIN complete_end :
        /\ complete_end[k].file_count.folders > 0
        /\ complete_end[k].file_count.files > 0
        /\ file_count = complete_end[k].file_count

\* Entry e or a directory above it has a name that begins with '.'.
RECURSIVE under_hidden(_, _)
under_hidden(f, e) ==
    e # Root /\ (is_hidden(f, e) \/ under_hidden(f, f.entries[e].parent))

\* C27: no scan puts an add_item for an entry whose name begins with '.',
\* nor for an entry beneath a directory whose name begins with '.'.
C27_NoHiddenEmitted ==
    \A k \in 1..Len(emitted) :
        \A i \in AddIds(emitted[k]) : ~under_hidden(fs, i)

\* A scan of a folder that holds a hidden directory with an entry in it has
\* run to its loading_complete and has put the entries that are not hidden.
C27_Witness ==
    /\ \E e \in 1..Len(fs.entries) :
          is_hidden(fs, e) /\ \E c \in 1..Len(fs.entries) : fs.entries[c].parent = e
    /\ Len(emitted) = 1
    /\ 1 \in DOMAIN complete_end
    /\ AddIds(emitted[1]) = {e \in 1..Len(fs.entries) : ~under_hidden(fs, e)}
    /\ AddIds(emitted[1]) # {}

TerminalKinds == {"loading_complete", "loading_cancelled", "loading_error"}

\* The positions of the terminal messages among the messages of a scan.
Terminals(msgs) == {i \in 1..Len(msgs) : msgs[i].type \in TerminalKinds}

\* C28: every scan enqueues at most one terminal message
\* (loading_complete, loading_cancelled or loading_error), whether put by
\* its thread or by cancel_loading, and exactly one once its thread has
\* returned.
C28_OneTerminal ==
    \A k \in 1..Len(threads) :
        /\ Cardinality(Terminals(emitted[k])) <= 1
        /\ threads[k].pc = "done" => Cardinality(Terminals(emitted[k])) = 1

\* C29: when is_loading is false while the scan started last has not been
\* cancelled (no cancel_loading since it started), the loading_complete of
\* that very scan has been applied; a loading_cancelled of an earlier scan
\* does not end it.
C29_OwnTerminalOnly ==
    LET k == Len(threads)
    IN  (k >= 1 /\ k \notin DOMAIN cancel_req /\ ~is_loading) =>
            k \in DOMAIN complete_end

\* C30: with process_queue ticking and the scanner threads running,
\* whenever a scan is loading, is_loading eventually becomes false with the
\* buttons enabled.
C30_EventuallyFinished == is_loading ~> (~is_loading /\ buttons = "normal")

\* A scan that nobody cancelled has run to its end and its loading_complete
\* has been applied: loading is over and the buttons are enabled.
C30_Witness ==
    /\ Len(threads) = 1
    /\ Uncancelled(1)
    /\ 1 \in DOMAIN complete_end
    /\ queue = <<>>
    /\ ~is_loading
    /\ buttons = "normal"

\* What check_all, uncheck_all, compile_selected and refresh_tree must
\* leave alone while a scan is loading.
CoreUnchanged ==
    /\ tree' = tree
    /\ file_items' = file_items
    /\ threads' = threads
    /\ queue' = queue
    /\ emitted' = emitted
    /\ is_loading' = is_loading
    /\ stop_loading_flag' = stop_loading_flag
    /\ selected_files' = selected_files

\* C31: a call of check_all, uncheck_all, compile_selected or refresh_tree
\* made while is_loading is true changes no item's tags, does not clear the
\* tree or file_items, starts no scanner thread and puts nothing on the queue.
C31_NoOpsWhileLoading ==
    [][(is_loading /\ (CheckAll \/ UncheckAll \/ CompileSelected \/ RefreshTree))
          => CoreUnchanged]_vars

\* check_all has just been called while a scan was loading and the tree
\* held an unchecked item, which is still unchecked.
C31_Witness ==
    /\ is_loading
    /\ lastOp.op = "check_all"
    /\ preTree = tree
    /\ \E i \in Items(tree) : check_state(tree, i) = Unchecked

\* The loading_cancelled messages among msgs.
CancelledIn(msgs) == {i \in 1..Len(msgs) : msgs[i].type = "loading_cancelled"}

\* C32: a call of cancel_loading made while is_loading is false leaves
\* stop_loading_flag, the queue, the status, the buttons, the tree and
\* file_items as they were; a second cancel right after a first one puts no
\* second loading_cancelled.
C32_CancelWhenIdle ==
    [][(~is_loading /\ CancelLoading) =>
          /\ stop_loading_flag' = stop_loading_flag
          /\ is_loading' = is_loading
          /\ queue' = queue
          /\ status' = status
          /\ buttons' = buttons
          /\ tree' = tree
          /\ file_items' = file_items]_vars

\* A first cancel_loading has stopped the scan and its loading_cancelled,
\* the only one, is still queued: the state a second cancel is pressed in.
C32_Witness ==
    /\ ~is_loading
    /\ stop_loading_flag
    /\ Len(threads) = 1
    /\ 1 \in DOMAIN cancel_req
    /\ Cardinality(CancelledIn(queue)) = 1
    /\ ENABLED CancelLoading

\* C33: load_tree_async called with no current folder, or with a folder
\* that does not exist, shows the error and returns: the tree and
\* file_items are not cleared, is_loading stays false, stop_loading_flag is
\* untouched, no scanner thread is started and nothing is queued.
C33_InvalidFolder ==
    [][(LoadTreeAsync /\ (current_folder = None \/ ~folder_exists(fs))) =>
          /\ lastOp'.error
          /\ tree' = tree
          /\ file_items' = file_items
          /\ ~is_loading'
          /\ stop_loading_flag' = stop_loading_flag
          /\ buttons' = buttons
          /\ threads' = threads
          /\ queue' = queue]_vars

\* load_tree_async has shown the error for a folder that was loaded, with
\* the scan cancelled at its end, and then deleted: the items of the earlier
\* scan are still in the tree and stop_loading_flag is still set.
C33_Witness ==
    /\ lastOp = Op("load_tree_async", Root, TRUE)
    /\ stop_loading_flag
    /\ current_folder = Folder
    /\ ~folder_exists(fs)
    /\ Items(tree) # {}
    /\ DOMAIN file_items = Items(tree)
    /\ ~is_loading

====
